---- MODULE Spec2Model ----
(***************************************************************************)
(* PCI bus enumeration and driver binding (kernel/src/pci.rs).             *)
(*                                                                         *)
(* init() scans the PCI configuration space through the 0xcf8/0xcfc port   *)
(* window, caches the presence bitmap in the persisted store, reads the    *)
(* configuration of every present standard device and offers it to every   *)
(* probe routine of DRIVERS; destroy_devices() purges every bound driver   *)
(* instance ahead of a soft reboot, ignoring the DEVICES lock.             *)
(*                                                                         *)
(* Representation: a u32 is a record [hi, lo] of two 16-bit halves (TLC's  *)
(* integers are 32-bit signed, so 0x80000000 is not an integer of the      *)
(* model); a u64 word of the bitmap is the set of its set bit positions.   *)
(***************************************************************************)
EXTENDS Integers, Sequences, FiniteSets, TLC

(***************************************************************************)
(* Bounds of the model.                                                    *)
(***************************************************************************)
\* Buses walked by the scan loop of the state machine (the source walks
\* NUM_BUS = 256 of them; the address arithmetic is checked on all 256 in
\* SpecAddr).
MaxBus == 2
\* Length of the DRIVERS list (the source lists one probe routine; the loop
\* over DRIVERS is generic in the length of the list).
NumDrivers == 2
\* Cores that may call init() during one kernel load.
NumCores == 2
\* Boots (cold or soft) after the first one.
MaxBoots == 1
\* Largest encoded BAR type handed to BarType::from in SpecBar.
MaxBarVal == 63

(***************************************************************************)
(* Program constants.                                                      *)
(***************************************************************************)
NUM_BUS == 256
NUM_DEVICE == 32
NUM_FUNCTION == 8
WORD_BITS == 64
PCI_CONFIG_ADDRESS == 3320
PCI_CONFIG_DATA == 3324
HEADER_REGS == 4
DEVICE_REGS == 16

Cores == 1 .. NumCores
Drivers == 1 .. NumDrivers

(***************************************************************************)
(* Fixed-width arithmetic.                                                 *)
(***************************************************************************)
\* 2^n, 0 <= n <= 16
Pow2Table == [n \in 0 .. 16 |-> 2 ^ n]
Pow2(n) == Pow2Table[n]

RECURSIVE OrBits(_, _)
\* a | b on naturals, bit by bit
OrBits(a, b) ==
    IF a = 0 THEN b
    ELSE IF b = 0 THEN a
    ELSE (IF a % 2 = 1 \/ b % 2 = 1 THEN 1 ELSE 0)
         + 2 * OrBits(a \div 2, b \div 2)

RECURSIVE AndBits(_, _)
\* a & b on naturals, bit by bit
AndBits(a, b) ==
    IF a = 0 \/ b = 0 THEN 0
    ELSE (IF a % 2 = 1 /\ b % 2 = 1 THEN 1 ELSE 0)
         + 2 * AndBits(a \div 2, b \div 2)

\* | and & on the hexadecimal digits
OrDigit == [i \in 0 .. 15 |-> [j \in 0 .. 15 |-> OrBits(i, j)]]
AndDigit == [i \in 0 .. 15 |-> [j \in 0 .. 15 |-> AndBits(i, j)]]

RECURSIVE BitOr(_, _)
\* a | b on naturals, digit by digit
BitOr(a, b) ==
    IF a = 0 THEN b
    ELSE IF b = 0 THEN a
    ELSE OrDigit[a % 16][b % 16] + 16 * BitOr(a \div 16, b \div 16)

RECURSIVE BitAnd(_, _)
\* a & b on naturals, digit by digit
BitAnd(a, b) ==
    IF a = 0 \/ b = 0 THEN 0
    ELSE AndDigit[a % 16][b % 16] + 16 * BitAnd(a \div 16, b \div 16)

\* The u32 with the value n, 0 <= n < 2^31
U32(n) == [hi |-> (n \div 65536) % 65536, lo |-> n % 65536]

\* The value of a u32 below 2^31
Val(x) == x.hi * 65536 + x.lo

\* x | y on u32
Or32(x, y) == [hi |-> BitOr(x.hi, y.hi), lo |-> BitOr(x.lo, y.lo)]

\* x << n on u32, 0 <= n <= 15: the bits shifted past bit 31 are lost
Shl32(x, n) ==
    [hi |-> (x.hi * Pow2(n) + x.lo \div Pow2(16 - n)) % 65536,
     lo |-> (x.lo * Pow2(n)) % 65536]

\* The bits x << n loses (0 when the shift does not overflow 32 bits)
Shl32Lost(x, n) == x.hi \div Pow2(16 - n)

U32_MAX == [hi |-> 65535, lo |-> 65535]

\* 1 << 31
PCI_ADDRESS_ENABLE == [hi |-> 32768, lo |-> 0]

(***************************************************************************)
(* u64 words of the presence bitmap, as sets of bit positions.             *)
(***************************************************************************)
Zero64 == {}
\* 1u64 << bit, 0 <= bit < 64
Bit64(bit) == {bit}
Or64(a, b) == a \cup b
And64(a, b) == a \cap b

(***************************************************************************)
(* Address computations of init().                                         *)
(***************************************************************************)
\* A BDF encoding whose device field starts one bit too low
PciAddrDevShift2(bus, device, function) ==
    Or32(Or32(Shl32(U32(bus), 8), Shl32(U32(device), 2)),
         Shl32(U32(function), 0))

\* (bus << 8) | (device << 3) | (function << 0), on u32
PciAddr(bus, device, function) ==
    Or32(Or32(Shl32(U32(bus), 8), Shl32(U32(device), 3)),
         Shl32(U32(function), 0))

\* PCI_ADDRESS_ENABLE | (pci_addr << 8): the selection address of the scan
SelAddr(pci_addr) == Or32(PCI_ADDRESS_ENABLE, Shl32(pci_addr, 8))

\* pci_addr / 64 and pci_addr % 64: the bitmap position of a BDF
EnumIdx(pci_addr) == Val(pci_addr) \div WORD_BITS
EnumBit(pci_addr) == Val(pci_addr) % WORD_BITS

\* (idx * 64) | bit: the BDF of a bitmap position (usize)
ParsePciAddr(idx, bit) == BitOr(idx * WORD_BITS, bit)

\* PCI_ADDRESS_ENABLE | (pci_addr << 8) as u32: the selection address of the
\* parsing phase
ParseSelAddr(pci_addr) == Or32(PCI_ADDRESS_ENABLE, U32(pci_addr * Pow2(8)))

\* A window address that takes the register index for the byte offset
RegAddrUnscaled(addr, rid) == Or32(addr, U32(rid))

\* addr | (rid * size_of::<u32>()) as u32: the window address of register rid
RegAddr(addr, rid) == Or32(addr, U32(rid * 4))

\* A presence test that looks at the vendor id half of the register only
DevicePresentVendorOnly(did_vid) == did_vid.lo # U32_MAX.lo

\* did_vid != 0xffff_ffff
DevicePresent(did_vid) == did_vid # U32_MAX

\* [0u64; 256 * 32 * 8 / 64], for the buses of the model
NumWords == (MaxBus * NUM_DEVICE * NUM_FUNCTION) \div WORD_BITS
NewPciEnum == [i \in 0 .. NumWords - 1 |-> Zero64]

\* pci_enum[idx] |= 1 << bit
SetPresent(pci_enum, pci_addr) ==
    [pci_enum EXCEPT ![EnumIdx(pci_addr)] = Or64(@, Bit64(EnumBit(pci_addr)))]

\* Option<[u64; N]>: None is the empty sequence, Some(x) the sequence <<x>>
None == <<>>
Some(x) == <<x>>
\* A check of the slot that takes every slot for empty
IsNoneAlways(slot) == TRUE
\* pci_devices.is_none()
IsNone(slot) == slot = None
\* pci_devices.as_ref().unwrap()
Unwrap(slot) == slot[1]

\* (pci_map & (1u64 << bit)) == 0
BitClear(pci_map, bit) == And64(pci_map, Bit64(bit)) = Zero64

\* core::ptr::read_unaligned(header.as_ptr() as *const PciHeader): the
\* little-endian layout of the first four registers
PciHeaderOf(regs) ==
    [vendor_id       |-> regs[1].lo,
     device_id       |-> regs[1].hi,
     command         |-> regs[2].lo,
     status          |-> regs[2].hi,
     revision        |-> regs[3].lo % 256,
     prog_if         |-> regs[3].lo \div 256,
     subclass        |-> regs[3].hi % 256,
     class           |-> regs[3].hi \div 256,
     cache_line_size |-> regs[4].lo % 256,
     latency_timer   |-> regs[4].lo \div 256,
     header_type     |-> regs[4].hi % 256,
     bist            |-> regs[4].hi \div 256]

\* A filter that compares the whole header_type byte, the multi-function
\* marker included
NotStandardUnmasked(header) == header.header_type # 0

\* (header.header_type & 0x7f) != 0: not a standard device
NotStandard(header) == BitAnd(header.header_type, 127) # 0

\* A decoding that takes every nonzero value for a 64-bit BAR
BarTypeLenient(val) == IF val = 0 THEN "Bits32" ELSE "Bits64"

\* BarType::from(val): the decoded type, or "panic"
BarTypeFrom(val) ==
    CASE val = 0 -> "Bits32"
      [] val = 2 -> "Bits64"
      [] OTHER   -> "panic"

(***************************************************************************)
(* The hardware behind the two ports: the configuration-address register   *)
(* and the configuration space of the functions on the bus.  A function    *)
(* that is absent reads as all ones.                                       *)
(***************************************************************************)
\* BDFs at which the modelled machine may carry a function: (0,7,7), the top
\* bit of word 0, and (1,2,3), bit 19 of word 4
SlotAddr == <<63, 275>>
Slots == 1 .. Len(SlotAddr)
Kinds == {"none", "nic", "mfdev", "bridge", "mfbridge"}

\* Register 0 (device ID, vendor ID) of a function of kind k
KindDidVid(k) ==
    CASE k = "nic"      -> [hi |-> 4110, lo |-> 32902]
      [] k = "mfdev"    -> [hi |-> 65535, lo |-> 32902]
      [] k = "bridge"   -> [hi |-> 4110, lo |-> 32902]
      [] k = "mfbridge" -> [hi |-> 9, lo |-> 65535]

\* Register 3 (BIST, header type, latency timer, cache line size) of a
\* function of kind k: header types 0x00, 0x80, 0x01 and 0x82
KindReg3(k) ==
    CASE k = "nic"      -> [hi |-> 0, lo |-> 16]
      [] k = "mfdev"    -> [hi |-> 384, lo |-> 16]
      [] k = "bridge"   -> [hi |-> 1, lo |-> 16]
      [] k = "mfbridge" -> [hi |-> 386, lo |-> 0]

\* Register r (0..15) of the function of kind k in slot s
KindReg(k, s, r) ==
    CASE r = 0 -> KindDidVid(k)
      [] r = 1 -> [hi |-> 16, lo |-> 7]
      [] r = 2 -> IF k \in {"nic", "mfdev"} THEN [hi |-> 512, lo |-> 3]
                  ELSE [hi |-> 1540, lo |-> 0]
      [] r = 3 -> KindReg3(k)
      [] r = 4 -> [hi |-> 65200 + s, lo |-> 0]
      [] r = 15 -> [hi |-> 0, lo |-> 256 + s]
      [] OTHER -> [hi |-> 0, lo |-> 0]

\* Register reg of the function at bdf
ConfigReg(h, bdf, reg) ==
    IF \E s \in Slots : SlotAddr[s] = bdf /\ h[s] # "none"
    THEN LET s == CHOOSE t \in Slots : SlotAddr[t] = bdf
         IN KindReg(h[s], s, reg)
    ELSE U32_MAX

\* What a read of the data port returns while the address register holds a
ConfigRead(h, a) ==
    IF a.hi < 32768 THEN U32_MAX
    ELSE ConfigReg(h, (a.hi % 256) * 256 + a.lo \div 256, (a.lo % 256) \div 4)

\* cpu::out32(port, val): the address register after the write
Out32(a, port, val) == IF port = PCI_CONFIG_ADDRESS THEN val ELSE a

\* cpu::in32(port): the value read
In32(h, a, port) == IF port = PCI_CONFIG_DATA THEN ConfigRead(h, a) ELSE U32_MAX

\* The port operations as they appear in io
OutOp(port, val) == [op |-> "out", port |-> port, val |-> val]
InOp(port, val) == [op |-> "in", port |-> port, val |-> val]

(***************************************************************************)
(* State.                                                                  *)
(***************************************************************************)
VARIABLES
    hw,            \* the kind of function in each slot of the bus
    cfg_addr,      \* the configuration-address register behind port 0xcf8
    io,            \* per core, the port operations its last step issued
    pci_devices,   \* persist_store().pci_devices: None or Some(bitmap)
    persist_lock,  \* the core holding the lock of pci_devices, 0 when free
    DEVICES,       \* the Vec of DEVICES: the bound driver instances
    dev_lock,      \* the core holding the lock of DEVICES, 0 when free
    purged,        \* per driver instance, the number of purge() calls on it
    next_id,       \* the identity of the next driver instance
    probe_memo,    \* what each probe routine answered for each device
    pc,            \* per core, its position in init()
    fr,            \* per core, the locals of its init() call, and as history
                   \* was_none (what is_none() answered), scan_io (the port
                   \* operations of its scan) and plog (its probe calls)
    halted,        \* TRUE once every core but the one tearing down is stopped
    d_pc,          \* the position of destroy_devices()
    d_i,           \* the index of the iterator of destroy_devices()
    d_len,         \* the length of the slice the iterator walks
    d_start,       \* history: DEVICES and dev_lock when destroy_devices began
    purge_log,     \* history: the instances purged by destroy_devices, in order
    boots,         \* boots after the first one
    enum_log,      \* history: the bitmaps the scans have written
    scans,         \* history: scans completed since the last cold boot
    a_pc, a_in, a_out,    \* SpecAddr: the address computations on chosen BDFs
    bar_val, bar_out      \* SpecBar: BarType::from on chosen values

storevars == <<DEVICES, dev_lock, purged, next_id, probe_memo>>
destroyvars == <<halted, d_pc, d_i, d_len, d_start, purge_log>>
histvars == <<boots, enum_log, scans>>
purevars == <<a_pc, a_in, a_out, bar_val, bar_out>>
vars == <<hw, cfg_addr, io, pci_devices, persist_lock, DEVICES, dev_lock,
          purged, next_id, probe_memo, pc, fr, halted, d_pc, d_i, d_len,
          d_start, purge_log, boots, enum_log, scans, a_pc, a_in, a_out,
          bar_val, bar_out>>

\* The locals of an init() call that has not begun
Frame0 ==
    [was_none |-> FALSE, bus |-> 0, device |-> 0, function |-> 0,
     pci_enum |-> <<>>, idx |-> 0, bit |-> 0, header |-> <<>>,
     pcidev |-> <<>>, drv |-> 0, driver |-> None,
     scan_io |-> 0, plog |-> <<>>]

NoIo == [p \in Cores |-> <<>>]

\* What the address register may hold when the kernel gets control: the
\* firmware and the bootloader have used the window before
BootCfgAddrs == {U32(0), RegAddr(ParseSelAddr(SlotAddr[1]), 0)}

\* The state of a freshly loaded kernel: an empty Vec, free locks, no call
KernelLoaded ==
    /\ DEVICES = <<>>
    /\ dev_lock = 0
    /\ persist_lock = 0
    /\ purged = <<>>
    /\ next_id = 1
    /\ probe_memo = {}
    /\ pc = [p \in Cores |-> "idle"]
    /\ fr = [p \in Cores |-> Frame0]
    /\ halted = FALSE
    /\ d_pc = "idle"
    /\ d_i = 0
    /\ d_len = 0
    /\ d_start = [devices |-> <<>>, lock |-> 0]
    /\ purge_log = <<>>

PureIdle ==
    /\ a_pc = "off" /\ a_in = <<>> /\ a_out = <<>>
    /\ bar_val = 0 /\ bar_out = "off"

Init ==
    /\ hw \in [Slots -> Kinds]
    /\ cfg_addr \in BootCfgAddrs
    /\ io = NoIo
    /\ pci_devices = None
    /\ KernelLoaded
    /\ boots = 0
    /\ enum_log = <<>>
    /\ scans = 0
    /\ PureIdle

(***************************************************************************)
(* init(), one core p at a time.                                           *)
(***************************************************************************)
\* A read of the data port that comes before the selection of addr
ScanReadStale(h, a, addr) ==
    [cfg     |-> Out32(a, PCI_CONFIG_ADDRESS, addr),
     did_vid |-> In32(h, a, PCI_CONFIG_DATA)]

\* cpu::out32(PCI_CONFIG_ADDRESS, addr); cpu::in32(PCI_CONFIG_DATA)
ScanRead(h, a, addr) ==
    [cfg     |-> Out32(a, PCI_CONFIG_ADDRESS, addr),
     did_vid |-> In32(h, Out32(a, PCI_CONFIG_ADDRESS, addr), PCI_CONFIG_DATA)]

\* The register loop over a structure of n registers at selection address
\* addr: the values read, the address register afterwards, the port operations
ReadStruct(h, a, addr, n) ==
    [regs |-> [k \in 1 .. n |->
                 In32(h, Out32(a, PCI_CONFIG_ADDRESS, RegAddr(addr, k - 1)),
                      PCI_CONFIG_DATA)],
     cfg  |-> IF n = 0 THEN a
              ELSE Out32(a, PCI_CONFIG_ADDRESS, RegAddr(addr, n - 1)),
     ops  |-> [j \in 1 .. 2 * n |->
                 IF j % 2 = 1
                 THEN OutOp(PCI_CONFIG_ADDRESS, RegAddr(addr, (j - 1) \div 2))
                 ELSE InOp(PCI_CONFIG_DATA,
                           In32(h, Out32(a, PCI_CONFIG_ADDRESS,
                                         RegAddr(addr, (j - 2) \div 2)),
                                PCI_CONFIG_DATA))]]

\* A guard that is dropped at once: the lock is free while init() runs
PersistLockedByNobody(p) == 0

\* let mut pci_devices = ....lock(): the lock of pci_devices once core p has
\* its guard, which lives until init() returns
PersistLockedBy(p) == p

\* The call begins with core!().persist_store().pci_devices.lock(), which
\* spins while the lock is held: the caller gets past it when the lock is
\* free.  The cores are interchangeable: they are taken to call in the order
\* of their numbers
InitLock(p) ==
    /\ ~halted /\ d_pc = "idle"
    /\ pc[p] = "idle"
    /\ \A q \in Cores : q < p => pc[q] # "idle"
    /\ persist_lock = 0
    /\ persist_lock' = PersistLockedBy(p)
    /\ pc' = [pc EXCEPT ![p] = "check"]
    /\ fr' = [fr EXCEPT ![p] = Frame0]
    /\ io' = [io EXCEPT ![p] = <<>>]
    /\ UNCHANGED <<hw, cfg_addr, pci_devices, storevars, destroyvars,
                   histvars, purevars>>

\* A guard that is dropped once the bitmap is there
GuardDroppedAfterEnum(p) == 0

\* let pci_devices = pci_devices.as_ref().unwrap(): the bitmap is borrowed
\* from the guard, so core p still holds the lock in the parsing phase
GuardAfterEnum(p) == p

\* if pci_devices.is_none() { let mut pci_enum = [0u64; ...]; ... }
InitCheck(p) ==
    /\ ~halted
    /\ pc[p] = "check"
    /\ IF IsNone(pci_devices)
       THEN /\ pc' = [pc EXCEPT ![p] = "scan"]
            /\ fr' = [fr EXCEPT ![p] = [@ EXCEPT !.was_none = TRUE,
                                                 !.pci_enum = NewPciEnum,
                                                 !.bus = 0, !.device = 0,
                                                 !.function = 0]]
            /\ persist_lock' = persist_lock
       ELSE /\ pc' = [pc EXCEPT ![p] = "parse"]
            /\ fr' = [fr EXCEPT ![p] = [@ EXCEPT !.was_none = FALSE,
                                                 !.idx = 0]]
            /\ persist_lock' = GuardAfterEnum(p)
    /\ io' = [io EXCEPT ![p] = <<>>]
    /\ UNCHANGED <<hw, cfg_addr, pci_devices, storevars, destroyvars,
                   histvars, purevars>>

RECURSIVE ScanFunctionsUntilAbsent(_, _, _, _, _, _)
\* A loop over the functions that ends at the first function that is absent
ScanFunctionsUntilAbsent(h, a, enum, bus, device, function) ==
    IF function >= NUM_FUNCTION
    THEN [cfg |-> a, pci_enum |-> enum, ops |-> <<>>]
    ELSE LET pci_addr == PciAddr(bus, device, function)
             addr     == SelAddr(pci_addr)
             rd       == ScanRead(h, a, addr)
             rest     == IF DevicePresent(rd.did_vid)
                         THEN ScanFunctionsUntilAbsent(
                                  h, rd.cfg, SetPresent(enum, pci_addr),
                                  bus, device, function + 1)
                         ELSE [cfg |-> rd.cfg, pci_enum |-> enum,
                               ops |-> <<>>]
         IN [cfg      |-> rest.cfg,
             pci_enum |-> rest.pci_enum,
             ops      |-> <<OutOp(PCI_CONFIG_ADDRESS, addr),
                            InOp(PCI_CONFIG_DATA, rd.did_vid)>> \o rest.ops]

RECURSIVE ScanFunctions(_, _, _, _, _, _)
\* for function in 0..8 { ... }, from function on: the address register and
\* pci_enum afterwards, and the port operations issued
ScanFunctions(h, a, enum, bus, device, function) ==
    IF function >= NUM_FUNCTION
    THEN [cfg |-> a, pci_enum |-> enum, ops |-> <<>>]
    ELSE LET pci_addr == PciAddr(bus, device, function)
             addr     == SelAddr(pci_addr)
             rd       == ScanRead(h, a, addr)
             enum2    == IF DevicePresent(rd.did_vid)
                         THEN SetPresent(enum, pci_addr)
                         ELSE enum
             rest     == ScanFunctions(h, rd.cfg, enum2, bus, device,
                                       function + 1)
         IN [cfg      |-> rest.cfg,
             pci_enum |-> rest.pci_enum,
             ops      |-> <<OutOp(PCI_CONFIG_ADDRESS, addr),
                            InOp(PCI_CONFIG_DATA, rd.did_vid)>> \o rest.ops]

\* One iteration of for device in 0..32 (its whole loop over the functions),
\* and the step of the loops over the devices and the buses
ScanStep(p) ==
    /\ ~halted
    /\ pc[p] = "scan"
    /\ LET f       == fr[p]
           r       == ScanFunctions(hw, cfg_addr, f.pci_enum, f.bus, f.device, 0)
           lastdev == f.device + 1 = NUM_DEVICE
           lastbus == f.bus + 1 = MaxBus
       IN /\ cfg_addr' = r.cfg
          /\ io' = [io EXCEPT ![p] = r.ops]
          /\ fr' = [fr EXCEPT ![p] =
                      [@ EXCEPT !.pci_enum = r.pci_enum,
                                !.scan_io = @ + Len(r.ops),
                                !.device = IF lastdev THEN 0 ELSE @ + 1,
                                !.bus = IF lastdev /\ ~lastbus
                                        THEN @ + 1 ELSE @]]
          /\ pc' = [pc EXCEPT ![p] = IF lastdev /\ lastbus
                                     THEN "store" ELSE "scan"]
    /\ UNCHANGED <<hw, pci_devices, persist_lock, storevars, destroyvars,
                   histvars, purevars>>

\* *pci_devices = Some(pci_enum)
ScanStore(p) ==
    /\ ~halted
    /\ pc[p] = "store"
    /\ pci_devices' = Some(fr[p].pci_enum)
    /\ enum_log' = Append(enum_log, fr[p].pci_enum)
    /\ scans' = scans + 1
    /\ pc' = [pc EXCEPT ![p] = "parse"]
    /\ fr' = [fr EXCEPT ![p] = [@ EXCEPT !.pci_enum = <<>>, !.bus = 0,
                                         !.idx = 0]]
    /\ persist_lock' = GuardAfterEnum(p)
    /\ io' = [io EXCEPT ![p] = <<>>]
    /\ UNCHANGED <<hw, cfg_addr, storevars, destroyvars, boots, purevars>>

RECURSIVE NextWord(_, _)
\* The first word at or after idx that is not 0 (if pci_map == 0 { continue; }),
\* NumWords when there is none
NextWord(map, idx) ==
    IF idx >= NumWords THEN NumWords
    ELSE IF map[idx] = Zero64 THEN NextWord(map, idx + 1)
    ELSE idx

RECURSIVE NextBit(_, _)
\* The first bit at or after bit that is set in pci_map (a clear bit is
\* skipped by continue), WORD_BITS when there is none
NextBit(pci_map, bit) ==
    IF bit >= WORD_BITS THEN WORD_BITS
    ELSE IF BitClear(pci_map, bit) THEN NextBit(pci_map, bit + 1)
    ELSE bit

\* for (idx, &pci_map) in pci_devices.iter().enumerate(): the words that are 0
\* are skipped; the loop ends after the last word
ParseWord(p) ==
    /\ ~halted
    /\ pc[p] = "parse"
    /\ LET f   == fr[p]
           nxt == NextWord(Unwrap(pci_devices), f.idx)
       IN IF nxt = NumWords
          THEN /\ pc' = [pc EXCEPT ![p] = "ret"]
               /\ fr' = [fr EXCEPT ![p] = [@ EXCEPT !.idx = nxt]]
          ELSE /\ pc' = [pc EXCEPT ![p] = "bits"]
               /\ fr' = [fr EXCEPT ![p] = [@ EXCEPT !.idx = nxt, !.bit = 0]]
    /\ io' = [io EXCEPT ![p] = <<>>]
    /\ UNCHANGED <<hw, cfg_addr, pci_devices, persist_lock, storevars,
                   destroyvars, histvars, purevars>>

\* for bit in 0..64: the clear bits are skipped; at a set bit the header is
\* read and the function is skipped unless it is a standard device
ParseBit(p) ==
    /\ ~halted
    /\ pc[p] = "bits"
    /\ LET f        == fr[p]
           bit      == NextBit(Unwrap(pci_devices)[f.idx], f.bit)
           pci_addr == ParsePciAddr(f.idx, bit)
           addr     == ParseSelAddr(pci_addr)
           rs       == ReadStruct(hw, cfg_addr, addr, HEADER_REGS)
           header   == PciHeaderOf(rs.regs)
       IN IF bit = WORD_BITS
          THEN /\ pc' = [pc EXCEPT ![p] = "parse"]
               /\ fr' = [fr EXCEPT ![p] = [@ EXCEPT !.idx = @ + 1, !.bit = 0]]
               /\ io' = [io EXCEPT ![p] = <<>>]
               /\ cfg_addr' = cfg_addr
          ELSE /\ cfg_addr' = rs.cfg
               /\ io' = [io EXCEPT ![p] = rs.ops]
               /\ IF NotStandard(header)
                  THEN /\ pc' = pc
                       /\ fr' = [fr EXCEPT ![p] =
                                   [@ EXCEPT !.bit = bit + 1,
                                             !.header = Some(header)]]
                  ELSE /\ pc' = [pc EXCEPT ![p] = "readdev"]
                       /\ fr' = [fr EXCEPT ![p] =
                                   [@ EXCEPT !.bit = bit, !.header = Some(header)]]
    /\ UNCHANGED <<hw, pci_devices, persist_lock, storevars, destroyvars,
                   histvars, purevars>>

\* The register loop over PciDevice
ReadDevice(p) ==
    /\ ~halted
    /\ pc[p] = "readdev"
    /\ LET f    == fr[p]
           addr == ParseSelAddr(ParsePciAddr(f.idx, f.bit))
           rs   == ReadStruct(hw, cfg_addr, addr, DEVICE_REGS)
       IN /\ cfg_addr' = rs.cfg
          /\ io' = [io EXCEPT ![p] = rs.ops]
          /\ fr' = [fr EXCEPT ![p] = [@ EXCEPT !.pcidev = rs.regs, !.drv = 1]]
    /\ pc' = [pc EXCEPT ![p] = "probe"]
    /\ UNCHANGED <<hw, pci_devices, persist_lock, storevars, destroyvars,
                   histvars, purevars>>

\* What probe routine drv may answer for the snapshot dev: a routine answers
\* the same device the same way during one kernel load
ProbeAnswers(memo, drv, dev) ==
    IF \E m \in memo : m.drv = drv /\ m.dev = dev
    THEN {m.res : m \in {n \in memo : n.drv = drv /\ n.dev = dev}}
    ELSE BOOLEAN

\* for probe in DRIVERS: the locals once routine f.drv has been handled: the
\* next routine, or the next bit when DRIVERS is exhausted
NextDriver(f) ==
    IF f.drv = NumDrivers
    THEN [f EXCEPT !.drv = 0, !.bit = @ + 1, !.driver = None, !.pcidev = <<>>]
    ELSE [f EXCEPT !.drv = @ + 1, !.driver = None]
PcNextDriver(f) == IF f.drv = NumDrivers THEN "bits" ELSE "probe"

\* A loop over DRIVERS that a None answer ends: on to the next bit
AfterNoneBreak(f) ==
    [pc |-> "bits",
     fr |-> [f EXCEPT !.drv = 0, !.bit = @ + 1, !.driver = None,
                      !.pcidev = <<>>]]

\* The loop over DRIVERS after a routine answered None
AfterNone(f) == [pc |-> PcNextDriver(f), fr |-> NextDriver(f)]

\* The loop over DRIVERS after the driver of a routine that answered Some was
\* pushed
AfterPush(f) == [pc |-> PcNextDriver(f), fr |-> NextDriver(f)]

\* if let Some(driver) = probe(&device)
Probe(p) ==
    /\ ~halted
    /\ pc[p] = "probe"
    /\ LET f == fr[p]
       IN \E res \in ProbeAnswers(probe_memo, f.drv, f.pcidev) :
            LET g == [f EXCEPT !.plog =
                        Append(@, [bdf |-> ParsePciAddr(f.idx, f.bit),
                                   drv |-> f.drv,
                                   dev |-> f.pcidev,
                                   res |-> res,
                                   id  |-> IF res THEN next_id ELSE 0])]
            IN /\ probe_memo' = probe_memo \cup
                                {[drv |-> f.drv, dev |-> f.pcidev, res |-> res]}
               /\ IF res
                  THEN /\ fr' = [fr EXCEPT ![p] =
                                   [g EXCEPT !.driver =
                                      Some([id  |-> next_id,
                                            bdf |-> ParsePciAddr(f.idx, f.bit),
                                            drv |-> f.drv])]]
                       /\ next_id' = next_id + 1
                       /\ purged' = Append(purged, 0)
                       /\ pc' = [pc EXCEPT ![p] = "acquire"]
                  ELSE /\ fr' = [fr EXCEPT ![p] = AfterNone(g).fr]
                       /\ pc' = [pc EXCEPT ![p] = AfterNone(g).pc]
                       /\ UNCHANGED <<next_id, purged>>
    /\ io' = [io EXCEPT ![p] = <<>>]
    /\ UNCHANGED <<hw, cfg_addr, pci_devices, persist_lock, DEVICES, dev_lock,
                   destroyvars, histvars, purevars>>

\* An access to the Vec that leaves the lock free
LockedByNobody(p) == 0

\* DEVICES.lock(): the lock once core p has its guard
LockedBy(p) == p

\* DEVICES.lock(): spins while the lock is held
PushAcquire(p) ==
    /\ ~halted
    /\ pc[p] = "acquire"
    /\ dev_lock = 0
    /\ dev_lock' = LockedBy(p)
    /\ pc' = [pc EXCEPT ![p] = "push"]
    /\ io' = [io EXCEPT ![p] = <<>>]
    /\ UNCHANGED <<hw, cfg_addr, pci_devices, persist_lock, DEVICES, purged,
                   next_id, probe_memo, fr, destroyvars, histvars, purevars>>

\* A push that keeps the first driver bound to a device and drops the others
PushFirstMatchOnly(devices, driver) ==
    IF \E i \in DOMAIN devices : devices[i].bdf = driver.bdf
    THEN devices
    ELSE Append(devices, driver)

\* A push that drops a driver whose device and routine have an entry already
PushUnlessBound(devices, driver) ==
    IF \E i \in DOMAIN devices :
          devices[i].bdf = driver.bdf /\ devices[i].drv = driver.drv
    THEN devices
    ELSE Append(devices, driver)

\* A push that puts the driver in front of the others
PushFront(devices, driver) == <<driver>> \o devices

\* Vec::push
PushDriver(devices, driver) == Append(devices, driver)

\* .push(driver)
Push(p) ==
    /\ ~halted
    /\ pc[p] = "push"
    /\ DEVICES' = PushDriver(DEVICES, Unwrap(fr[p].driver))
    /\ pc' = [pc EXCEPT ![p] = "release"]
    /\ io' = [io EXCEPT ![p] = <<>>]
    /\ UNCHANGED <<hw, cfg_addr, pci_devices, persist_lock, dev_lock, purged,
                   next_id, probe_memo, fr, destroyvars, histvars, purevars>>

\* The guard of DEVICES.lock() is dropped at the end of the statement
PushRelease(p) ==
    /\ ~halted
    /\ pc[p] = "release"
    /\ dev_lock' = 0
    /\ fr' = [fr EXCEPT ![p] = AfterPush(fr[p]).fr]
    /\ pc' = [pc EXCEPT ![p] = AfterPush(fr[p]).pc]
    /\ io' = [io EXCEPT ![p] = <<>>]
    /\ UNCHANGED <<hw, cfg_addr, pci_devices, persist_lock, DEVICES, purged,
                   next_id, probe_memo, destroyvars, histvars, purevars>>

\* init() returns: the guard of pci_devices is dropped
InitReturn(p) ==
    /\ ~halted
    /\ pc[p] = "ret"
    /\ persist_lock' = 0
    /\ pc' = [pc EXCEPT ![p] = "done"]
    /\ fr' = [fr EXCEPT ![p] = [@ EXCEPT !.idx = 0, !.bit = 0,
                                         !.header = <<>>]]
    /\ io' = [io EXCEPT ![p] = <<>>]
    /\ UNCHANGED <<hw, cfg_addr, pci_devices, storevars, destroyvars, histvars,
                   purevars>>

(***************************************************************************)
(* destroy_devices(), called by the one core still running ahead of a soft *)
(* reboot (possibly from a panic that interrupted init()).                 *)
(***************************************************************************)
\* An access that waits until the lock is free
ShatterWhenFree(lock) == lock = 0

\* DEVICES.shatter() does not wait for the lock
ShatterReady(lock) == TRUE

\* DEVICES.shatter() hands out the Vec whatever the state of the lock
Shatter(devices, lock) == devices

\* A loop that takes the instances out of the Vec: none is left after it
StoreDrained(devices) == <<>>

\* for device in devices, on &mut Vec: the Vec once the loop is over
StoreAfterLoop(devices) == devices

\* A loop that ends after its first iteration
IterDoneAtOnce(i, len) == TRUE

\* for device in devices: iteration i was the last one
IterDone(i, len) == i = len

\* An iteration that takes the instances from the last one to the first
IterNextReversed(devices, i) == devices[Len(devices) + 1 - i]

\* for device in devices: the instance of iteration i
IterNext(devices, i) == devices[i]

\* The call begins; every other core is stopped where it stands
DestroyCall ==
    /\ d_pc = "idle"
    /\ halted' = TRUE
    /\ d_pc' = "shatter"
    /\ d_start' = [devices |-> DEVICES, lock |-> dev_lock]
    /\ purge_log' = <<>>
    /\ io' = NoIo
    /\ pc' = [p \in Cores |-> "halted"]
    /\ fr' = [p \in Cores |-> Frame0]
    /\ UNCHANGED <<hw, cfg_addr, pci_devices, persist_lock, storevars, d_i,
                   d_len, histvars, purevars>>

\* let devices = &mut *DEVICES.shatter(); for device in devices (an empty Vec
\* ends the loop at once)
DestroyShatter ==
    /\ d_pc = "shatter"
    /\ ShatterReady(dev_lock)
    /\ d_i' = 1
    /\ d_len' = Len(Shatter(DEVICES, dev_lock))
    /\ d_pc' = IF Len(Shatter(DEVICES, dev_lock)) = 0 THEN "done" ELSE "purge"
    /\ io' = NoIo
    /\ UNCHANGED <<hw, cfg_addr, pci_devices, persist_lock, storevars, pc, fr,
                   halted, d_start, purge_log, histvars, purevars>>

\* device.purge(), for the next instance of the iterator; after the last one
\* destroy_devices() returns
DestroyPurge ==
    /\ d_pc = "purge"
    /\ d_i <= d_len
    /\ purged' = [purged EXCEPT
                     ![IterNext(Shatter(DEVICES, dev_lock), d_i).id] = @ + 1]
    /\ purge_log' = Append(purge_log,
                           IterNext(Shatter(DEVICES, dev_lock), d_i).id)
    /\ d_i' = d_i + 1
    /\ d_pc' = IF IterDone(d_i, d_len) THEN "done" ELSE "purge"
    /\ DEVICES' = IF IterDone(d_i, d_len) THEN StoreAfterLoop(DEVICES)
                  ELSE DEVICES
    /\ io' = NoIo
    /\ UNCHANGED <<hw, cfg_addr, pci_devices, persist_lock, dev_lock,
                   next_id, probe_memo, pc, fr, halted, d_len, d_start,
                   histvars, purevars>>

(***************************************************************************)
(* Boots.  A soft reboot reloads the kernel and keeps the persisted store  *)
(* and the functions on the bus; a cold boot loses the persisted store.    *)
(* The bootloader runs before every kernel load and leaves the address     *)
(* register at one of BootCfgAddrs.                                        *)
(***************************************************************************)
KernelReload ==
    /\ DEVICES' = <<>>
    /\ dev_lock' = 0
    /\ persist_lock' = 0
    /\ purged' = <<>>
    /\ next_id' = 1
    /\ probe_memo' = {}
    /\ pc' = [p \in Cores |-> "idle"]
    /\ fr' = [p \in Cores |-> Frame0]
    /\ halted' = FALSE
    /\ d_pc' = "idle"
    /\ d_i' = 0
    /\ d_len' = 0
    /\ d_start' = [devices |-> <<>>, lock |-> 0]
    /\ purge_log' = <<>>
    /\ io' = NoIo

SoftReboot ==
    /\ d_pc = "done"
    /\ boots < MaxBoots
    /\ boots' = boots + 1
    /\ KernelReload
    /\ cfg_addr' \in BootCfgAddrs
    /\ UNCHANGED <<hw, pci_devices, enum_log, scans, purevars>>

ColdBoot ==
    /\ boots < MaxBoots
    /\ boots' = boots + 1
    /\ KernelReload
    /\ pci_devices' = None
    /\ cfg_addr' \in BootCfgAddrs
    /\ scans' = 0
    /\ UNCHANGED <<hw, enum_log, purevars>>

Next ==
    \/ \E p \in Cores :
         \/ InitLock(p)
         \/ InitCheck(p)
         \/ ScanStep(p)
         \/ ScanStore(p)
         \/ ParseWord(p)
         \/ ParseBit(p)
         \/ ReadDevice(p)
         \/ Probe(p)
         \/ PushAcquire(p)
         \/ Push(p)
         \/ PushRelease(p)
         \/ InitReturn(p)
    \/ DestroyCall
    \/ DestroyShatter
    \/ DestroyPurge
    \/ SoftReboot
    \/ ColdBoot

Spec == Init /\ [][Next]_vars

\* destroy_devices() keeps running once called: the core it runs on is not
\* stopped, and purge() returns
FairSpec == Spec /\ WF_vars(DestroyShatter) /\ WF_vars(DestroyPurge)

(***************************************************************************)
(* SpecAddr: the address computations of init() on chosen BDFs.  x ranges  *)
(* over every (bus, device, function), y over AddrSamples.                 *)
(***************************************************************************)
\* The state of the machine while only a pure function is exercised
Quiet ==
    /\ hw = [s \in Slots |-> "none"]
    /\ cfg_addr = U32(0)
    /\ io = NoIo
    /\ pci_devices = None
    /\ KernelLoaded
    /\ boots = 0
    /\ enum_log = <<>>
    /\ scans = 0

Bdf(bus, device, function) ==
    [bus |-> bus, device |-> device, function |-> function]
AllBdfs ==
    {Bdf(b, d, f) : b \in 0 .. NUM_BUS - 1, d \in 0 .. NUM_DEVICE - 1,
                    f \in 0 .. NUM_FUNCTION - 1}
AddrSamples == {Bdf(0, 0, 0), Bdf(1, 2, 3), Bdf(255, 31, 7)}

\* The bits the shifts of the scan's address computation lose: bus << 8,
\* device << 3, pci_addr << 8
ScanAddrLost(b) ==
    Shl32Lost(U32(b.bus), 8) + Shl32Lost(U32(b.device), 3)
    + Shl32Lost(PciAddr(b.bus, b.device, b.function), 8)

\* What the scan computes for the BDF b
ScanAddrOf(b) ==
    LET pci_addr == PciAddr(b.bus, b.device, b.function)
    IN [pci_addr |-> pci_addr,
        addr     |-> SelAddr(pci_addr),
        lost     |-> ScanAddrLost(b),
        idx      |-> EnumIdx(pci_addr),
        bit      |-> EnumBit(pci_addr)]

\* What the parsing phase computes for the bitmap position (idx, bit)
ParseAddrOf(idx, bit) ==
    [pci_addr |-> ParsePciAddr(idx, bit),
     addr     |-> ParseSelAddr(ParsePciAddr(idx, bit))]

AddrInit ==
    /\ Quiet
    /\ a_pc = "in"
    /\ a_in \in [x : AllBdfs, y : AddrSamples]
    /\ a_out = <<>>
    /\ bar_val = 0 /\ bar_out = "off"

AddrScan ==
    /\ a_pc = "in"
    /\ a_out' = [x |-> ScanAddrOf(a_in.x), y |-> ScanAddrOf(a_in.y)]
    /\ a_pc' = "scanned"
    /\ UNCHANGED <<hw, cfg_addr, io, pci_devices, persist_lock, storevars, pc,
                   fr, destroyvars, histvars, a_in, bar_val, bar_out>>

AddrParse ==
    /\ a_pc = "scanned"
    /\ a_out' = [x  |-> a_out.x,
                 y  |-> a_out.y,
                 px |-> ParseAddrOf(a_out.x.idx, a_out.x.bit),
                 py |-> ParseAddrOf(a_out.y.idx, a_out.y.bit)]
    /\ a_pc' = "parsed"
    /\ UNCHANGED <<hw, cfg_addr, io, pci_devices, persist_lock, storevars, pc,
                   fr, destroyvars, histvars, a_in, bar_val, bar_out>>

AddrNext == AddrScan \/ AddrParse

SpecAddr == AddrInit /\ [][AddrNext]_vars

(***************************************************************************)
(* SpecBar: BarType::from on the values 0 .. MaxBarVal.                    *)
(***************************************************************************)
BarInit ==
    /\ Quiet
    /\ a_pc = "off" /\ a_in = <<>> /\ a_out = <<>>
    /\ bar_val \in 0 .. MaxBarVal
    /\ bar_out = "call"

BarDecode ==
    /\ bar_out = "call"
    /\ bar_out' = BarTypeFrom(bar_val)
    /\ UNCHANGED <<hw, cfg_addr, io, pci_devices, persist_lock, storevars, pc,
                   fr, destroyvars, histvars, a_pc, a_in, a_out, bar_val>>

BarNext == BarDecode

SpecBar == BarInit /\ [][BarNext]_vars

-----------------------------------------------------------------------------
\* Properties of init() and destroy_devices(), checked under Spec

\* The BDF addresses the scan of the model covers
NumAddrs == MaxBus * NUM_DEVICE * NUM_FUNCTION
Addrs == 0 .. NumAddrs - 1

\* What the data port returns once register 0 of addr is selected:
\* 0x8000_0000 | (addr << 8) in halves
Reg0Read(addr) ==
    ConfigRead(hw, [hi |-> 32768 + addr \div 256, lo |-> (addr % 256) * 256])

\* The calls of init() that have gone past the check of the persisted slot
InCall == {"scan", "store", "parse", "bits", "readdev", "probe", "acquire",
           "push", "release", "ret", "done"}

\* C1: when an init() call that found the persisted slot absent returns, the
\* slot holds a bitmap, and for every BDF address of the scanned range the bit
\* at word addr / 64, position addr % 64 is set exactly when the value read
\* from the data port after selecting register 0 of addr differs from
\* 0xFFFFFFFF.
C1_BitmapMatchesReads ==
    \A p \in Cores :
        (pc[p] = "ret" /\ fr[p].was_none) =>
            /\ pci_devices # None
            /\ \A addr \in Addrs :
                 (addr % WORD_BITS \in Unwrap(pci_devices)[addr \div WORD_BITS])
                     <=> (Reg0Read(addr) # U32_MAX)

\* A call that found the slot absent has returned; the device at 00:07.7 has
\* a vendor id of 0xFFFF and is recorded, the absent 01:02.3 is not.
C1_Witness ==
    \E p \in Cores :
        /\ pc[p] = "ret"
        /\ fr[p].was_none
        /\ hw[1] = "mfbridge"
        /\ hw[2] = "none"
        /\ Unwrap(pci_devices)[0] = {63}
        /\ Unwrap(pci_devices)[4] = {}

\* C2: the scan runs at most once while the persisted slot keeps its content
\* (it survives a soft reboot): only a call that found the slot absent scans
\* and writes the slot; a call that found a bitmap present issues no scan
\* port I/O, and no step taken while such a call runs changes the bitmap.
C2_ScanOncePerCycle ==
    /\ [](/\ scans <= 1
          /\ \A p \in Cores :
               /\ pc[p] \in {"scan", "store"} =>
                     (fr[p].was_none /\ pci_devices = None)
               /\ (pc[p] \in InCall /\ ~fr[p].was_none) =>
                     (fr[p].scan_io = 0 /\ pci_devices # None))
    /\ [][/\ (pci_devices' # pci_devices /\ boots' = boots) =>
                \E p \in Cores : /\ pc[p] = "store"
                                 /\ fr[p].was_none
                                 /\ pci_devices = None
                                 /\ scans = 0
          /\ \A p \in Cores :
                (pc[p] \in InCall /\ ~fr[p].was_none /\ boots' = boots) =>
                    pci_devices' = pci_devices]_vars

\* After a soft reboot the first call found the bitmap of the earlier kernel,
\* offered a device to the probe routines and returned without one scan read.
C2_Witness ==
    /\ boots = 1
    /\ scans = 1
    /\ pc[1] = "done"
    /\ ~fr[1].was_none
    /\ fr[1].scan_io = 0
    /\ fr[1].plog # <<>>
    /\ pci_devices # None

\* C3: the scans that start from an absent slot against the same hardware
\* (whatever the address register holds when they start) all produce the same
\* bitmap.
C3_ScanIdempotent ==
    \A i, j \in 1 .. Len(enum_log) : enum_log[i] = enum_log[j]

\* Two scans have run, one before and one after a cold boot, and both
\* recorded the devices at 00:07.7 and 01:02.3.
C3_Witness ==
    /\ Len(enum_log) = 2
    /\ boots = 1
    /\ hw[1] # "none"
    /\ hw[2] # "none"
    /\ enum_log[1][0] = {63}
    /\ enum_log[2][4] = {19}

\* The header_type byte (offset 0x0E: bits 16..23 of register 3) the hardware
\* holds for the function at addr, and the filter of the claim on it
HwHeaderType(addr) == ConfigReg(hw, addr, 3).hi % 256
HwStandard(addr) == HwHeaderType(addr) % 128 = 0

\* The BDF addresses whose bit is set in the bitmap pci_map
PresentAddrs(pci_map) ==
    UNION {{w * WORD_BITS + b : b \in pci_map[w]} : w \in DOMAIN pci_map}

\* The BDF addresses of the probe calls of core p
ProbedAddrs(p) == {fr[p].plog[k].bdf : k \in DOMAIN fr[p].plog}

\* The BDF address a write to the address register selects, and its offset
SelectedBdf(val) == (val.hi % 256) * 256 + val.lo \div 256
SelectedOffset(val) == val.lo % 256

\* C5: a device whose header_type has a nonzero bit among its low 7 never
\* has its registers past the header selected and never reaches a probe
\* routine; and when init() returns, the devices that were offered to the
\* probe routines are exactly the present ones whose header_type has its low
\* 7 bits zero, bit 7 and the IDs playing no part.
C5_BridgeFiltering ==
    \A p \in Cores :
        /\ pc[p] \in {"readdev", "probe", "acquire", "push", "release"} =>
              HwStandard(ParsePciAddr(fr[p].idx, fr[p].bit))
        /\ \A k \in DOMAIN io[p] :
              (/\ io[p][k].op = "out"
               /\ io[p][k].port = PCI_CONFIG_ADDRESS
               /\ SelectedOffset(io[p][k].val) >= 4 * HEADER_REGS) =>
                  HwStandard(SelectedBdf(io[p][k].val))
        /\ \A a \in ProbedAddrs(p) : HwStandard(a)
        /\ pc[p] = "ret" =>
              ProbedAddrs(p) =
                  {a \in PresentAddrs(Unwrap(pci_devices)) : HwStandard(a)}

\* init() returns having skipped the bridge at 00:07.7, which carries the IDs
\* of the network card, and having offered the multi-function device at
\* 01:02.3 (header_type 0x80) to the probe routines.
C5_Witness ==
    \E p \in Cores :
        /\ pc[p] = "ret"
        /\ hw[1] = "bridge"
        /\ hw[2] = "mfdev"
        /\ PresentAddrs(Unwrap(pci_devices)) = {63, 275}
        /\ ProbedAddrs(p) = {275}

\* The instance with identity id is in the Device Store
InStore(id) == \E i \in DOMAIN DEVICES : DEVICES[i].id = id

\* C6: every probe call that returned Some has its instance in the Device
\* Store once its push is over, and the next routine of the list is called
\* for the same device all the same; so two routines that claim one device
\* leave two instances in the store.
C6_MultiClaim ==
    \A p \in Cores :
        LET plog == fr[p].plog
        IN \A k \in DOMAIN plog :
             plog[k].res =>
                /\ (k < Len(plog) \/ pc[p] \notin {"acquire", "push"}) =>
                      /\ InStore(plog[k].id)
                      /\ \A j \in DOMAIN plog :
                            plog[j].id = plog[k].id => j = k
                /\ (k = Len(plog) /\ plog[k].drv < NumDrivers) =>
                      pc[p] \in {"acquire", "push", "release", "probe"}
                /\ (k < Len(plog) /\ plog[k].drv < NumDrivers) =>
                      /\ plog[k + 1].bdf = plog[k].bdf
                      /\ plog[k + 1].drv = plog[k].drv + 1

\* init() has returned after the first two routines both claimed the device
\* at 01:02.3: the store holds the two instances.
C6_Witness ==
    \E p \in Cores :
        /\ pc[p] = "done"
        /\ Len(fr[p].plog) >= 2
        /\ fr[p].plog[1].bdf = 275 /\ fr[p].plog[1].res
        /\ fr[p].plog[2].bdf = 275 /\ fr[p].plog[2].res
        /\ fr[p].plog[1].id # fr[p].plog[2].id
        /\ InStore(fr[p].plog[1].id)
        /\ InStore(fr[p].plog[2].id)

\* The identities of the instances in the sequence devices, in order
IdsOf(devices) == [i \in DOMAIN devices |-> devices[i].id]

\* C7: when destroy_devices() is over, the purge() calls it made are one per
\* instance that was in the Device Store when it was called, in store order,
\* and no instance outside the store was purged; on the way the calls made
\* so far are a prefix of that sequence.  The lock may be free or held.
C7_PurgeComplete ==
    /\ d_pc = "done" =>
          /\ purge_log = IdsOf(d_start.devices)
          /\ \A id \in DOMAIN purged :
                purged[id] =
                    IF \E i \in DOMAIN d_start.devices :
                          d_start.devices[i].id = id
                    THEN 1 ELSE 0
    /\ d_pc = "purge" =>
          /\ d_i <= Len(d_start.devices)
          /\ purge_log = SubSeq(IdsOf(d_start.devices), 1, d_i - 1)

\* destroy_devices() is over; it was called while a core held the lock with
\* a driver in hand, two instances being in the store: those two were
\* purged, the one in hand was not.
C7_Witness ==
    /\ d_pc = "done"
    /\ d_start.lock # 0
    /\ Len(d_start.devices) = 2
    /\ Len(purge_log) = 2
    /\ Len(purged) = 3
    /\ purged[3] = 0

\* The 16 registers the hardware holds for the function at addr
HwSnapshot(addr) == [r \in 1 .. DEVICE_REGS |-> ConfigReg(hw, addr, r - 1)]

\* The probe calls that answered Some, over all cores
Claims == {<<p, k>> \in Cores \X (1 .. Len(SlotAddr) * NumDrivers) :
             k <= Len(fr[p].plog) /\ fr[p].plog[k].res}

\* The cores that hold a driver not pushed yet
Holding == {p \in Cores : pc[p] \in {"acquire", "push"}}

\* C8: when init() returns, its probe calls are, for each present standard
\* device in ascending BDF order, one call of every routine of DRIVERS in
\* list order, all with the snapshot of that device, whatever the routines
\* answered; and the store holds one instance per Some answer, none for a
\* None answer.
C8_ProbesAllCalled ==
    /\ \A p \in Cores :
          pc[p] = "ret" =>
             LET plog == fr[p].plog
                 std  == {a \in PresentAddrs(Unwrap(pci_devices)) :
                            HwStandard(a)}
             IN /\ Len(plog) = NumDrivers * Cardinality(std)
                /\ \A k \in DOMAIN plog :
                      /\ plog[k].drv = ((k - 1) % NumDrivers) + 1
                      /\ plog[k].bdf \in std
                      /\ plog[k].dev = HwSnapshot(plog[k].bdf)
                /\ \A j, k \in DOMAIN plog :
                      LET bj == (j - 1) \div NumDrivers
                          bk == (k - 1) \div NumDrivers
                      IN /\ bj = bk => plog[j].bdf = plog[k].bdf
                         /\ bj < bk => plog[j].bdf < plog[k].bdf
    /\ ~halted =>
          /\ Len(DEVICES) = Cardinality(Claims) - Cardinality(Holding)
          /\ \A i \in DOMAIN DEVICES :
                \E c \in Claims : fr[c[1]].plog[c[2]].id = DEVICES[i].id

\* init() returns from a machine with two standard devices: the first
\* routine answered None for 00:07.7 and the next one Some, and the routines
\* were called for 01:02.3 as well, the first of them answering None.
C8_Witness ==
    \E p \in Cores :
        /\ pc[p] = "ret"
        /\ Len(fr[p].plog) = 2 * NumDrivers
        /\ ~fr[p].plog[1].res
        /\ fr[p].plog[2].res
        /\ fr[p].plog[1].bdf = 63
        /\ fr[p].plog[NumDrivers + 1].bdf = 275
        /\ ~fr[p].plog[NumDrivers + 1].res
        /\ Len(DEVICES) = Cardinality(Claims)

\* C10: destroy_devices() never waits for the lock of the Device Store:
\* whoever holds the lock, its next step can be taken; and called while a
\* context that has stopped for good holds the lock, it gets to its end, if
\* the machine is not power-cycled first (d_pc is then back at "idle"),
\* given that its own steps, the purge() calls among them, are taken.
C10_DestroyNeverWaits ==
    /\ [](/\ d_pc = "shatter" => ENABLED DestroyShatter
          /\ d_pc = "purge" => (ENABLED DestroyPurge /\ d_i <= d_len)
          /\ d_pc \in {"shatter", "purge"} => dev_lock = d_start.lock)
    /\ (d_pc = "shatter" /\ dev_lock # 0) ~> (d_pc \in {"done", "idle"})

\* destroy_devices() was called while core 1, halted since, held the lock; it
\* purged the instance of the store and is over, the lock still held.
C10_Witness ==
    /\ d_pc = "done"
    /\ halted
    /\ d_start.lock = 1
    /\ dev_lock = 1
    /\ purge_log # <<>>
    /\ purge_log = IdsOf(DEVICES)

\* C11: destroy_devices() leaves the Device Store as it found it: from the
\* call to its end the store holds the instances it held at the call, in the
\* same order, and no step of the call changes the store or the persisted
\* bitmap.
C11_DestroyKeepsStore ==
    /\ [](d_pc \in {"shatter", "purge", "done"} =>
             DEVICES = d_start.devices)
    /\ [][(d_pc' # "idle" /\ boots' = boots) =>
             (DEVICES' = DEVICES /\ pci_devices' = pci_devices)]_vars

\* destroy_devices(), called with the lock free, has purged the two
\* instances of the store: both are still there, and so is the bitmap.
C11_Witness ==
    /\ d_pc = "done"
    /\ d_start.lock = 0
    /\ Len(purge_log) = 2
    /\ Len(DEVICES) = 2
    /\ pci_devices # None
    /\ PresentAddrs(Unwrap(pci_devices)) # {}

\* The selection address 0x8000_0000 + bdf * 2^8 of a BDF, in halves
ExpectedAddr(b) ==
    [hi |-> 32768 + b.bus, lo |-> (b.device * 8 + b.function) * 256]

\* The port operations of the scan at (bus, device): per function in
\* ascending order one write of its selection address to the address port,
\* then one read of the data port
ScanPattern(ops, bus, device) ==
    /\ Len(ops) = 2 * NUM_FUNCTION
    /\ \A fn \in 0 .. NUM_FUNCTION - 1 :
          /\ ops[2 * fn + 1] =
                OutOp(PCI_CONFIG_ADDRESS, ExpectedAddr(Bdf(bus, device, fn)))
          /\ ops[2 * fn + 2].op = "in"
          /\ ops[2 * fn + 2].port = PCI_CONFIG_DATA

\* C12: the scan starts at 00:00.0 and every step of it issues, for the 8
\* functions of the current (bus, device) in ascending order, one write to
\* the address port followed by one read of the data port, then moves to the
\* next (bus, device); it goes on to the store only after the last device of
\* the last bus, so that it has issued two port operations per BDF address
\* by then, whatever the reads returned.
C12_ScanPattern ==
    /\ [](\A p \in Cores :
            /\ pc[p] = "scan" =>
                  /\ fr[p].bus < MaxBus /\ fr[p].device < NUM_DEVICE
                  /\ fr[p].scan_io =
                        2 * NUM_FUNCTION * (fr[p].bus * NUM_DEVICE
                                            + fr[p].device)
            /\ (pc[p] \in InCall \ {"scan"} /\ fr[p].was_none) =>
                  fr[p].scan_io = 2 * NumAddrs)
    /\ [][\A p \in Cores :
            (pc[p] = "scan" /\ pc'[p] \in {"scan", "store"}
                            /\ fr'[p] # fr[p]) =>
               /\ ScanPattern(io'[p], fr[p].bus, fr[p].device)
               /\ pc'[p] = "store" <=>
                     (fr[p].bus = MaxBus - 1 /\ fr[p].device = NUM_DEVICE - 1)
               /\ pc'[p] = "scan" =>
                     fr'[p].bus * NUM_DEVICE + fr'[p].device =
                         fr[p].bus * NUM_DEVICE + fr[p].device + 1]_vars

\* The scan has just read the functions of the last device of the last bus,
\* the last one at its selection address, after 00:07.7 answered and 01:02.3
\* did not.
C12_Witness ==
    \E p \in Cores :
        /\ pc[p] = "store"
        /\ hw[1] = "nic" /\ hw[2] = "none"
        /\ fr[p].scan_io = 2 * NumAddrs
        /\ Len(io[p]) = 2 * NUM_FUNCTION
        /\ io[p][2 * NUM_FUNCTION - 1].val =
              ExpectedAddr(Bdf(MaxBus - 1, NUM_DEVICE - 1, NUM_FUNCTION - 1))
        /\ fr[p].pci_enum[0] = {63}

\* ENABLE_BIT | (bdf << 8) | (r * 4), in halves
ExpectedRegAddr(bdf, r) ==
    [hi |-> 32768 + bdf \div 256, lo |-> (bdf % 256) * 256 + 4 * r]

\* The port operations of the read of registers 0 .. n - 1 of bdf, in
\* ascending order: per register one write of its window address to the
\* address port, then one read of the data port
RegPattern(ops, bdf, n) ==
    /\ Len(ops) = 2 * n
    /\ \A r \in 0 .. n - 1 :
          /\ ops[2 * r + 1] =
                OutOp(PCI_CONFIG_ADDRESS, ExpectedRegAddr(bdf, r))
          /\ ops[2 * r + 2].op = "in"
          /\ ops[2 * r + 2].port = PCI_CONFIG_DATA

\* The least element of the nonempty set S of numbers
Least(S) == CHOOSE b \in S : \A c \in S : b <= c

\* core p takes a step of its init() call
Steps(p) == pc'[p] \notin {"idle", "halted"}
            /\ (pc'[p] # pc[p] \/ fr'[p] # fr[p])

\* C13: the parsing phase goes through the set bits of the bitmap in
\* ascending order and reads those BDFs only.  At each set bit the header is
\* read as registers 0..3 in ascending order, each as a write of
\* ENABLE_BIT | (bdf << 8) | (r * 4) to the address port followed by one read
\* of the data port, the value read going to offset r of the header; for a
\* standard device the 16 registers of the device configuration are then
\* read the same way.
C13_RegisterProtocol ==
    [][\A p \in Cores :
         /\ (pc[p] = "parse" /\ Steps(p)) =>
               LET words == {w \in DOMAIN Unwrap(pci_devices) :
                               w >= fr[p].idx /\ Unwrap(pci_devices)[w] # {}}
               IN /\ io'[p] = <<>>
                  /\ IF words = {} THEN pc'[p] = "ret"
                     ELSE /\ pc'[p] = "bits"
                          /\ fr'[p].idx = Least(words)
                          /\ fr'[p].bit = 0
         /\ (pc[p] = "bits" /\ Steps(p)) =>
               LET bits == {b \in Unwrap(pci_devices)[fr[p].idx] :
                              b >= fr[p].bit}
                   bdf  == fr[p].idx * WORD_BITS + Least(bits)
                   hdr  == Unwrap(fr'[p].header)
               IN IF bits = {}
                  THEN /\ pc'[p] = "parse"
                       /\ io'[p] = <<>>
                       /\ fr'[p].idx = fr[p].idx + 1
                  ELSE /\ RegPattern(io'[p], bdf, HEADER_REGS)
                       /\ hdr.vendor_id = io'[p][2].val.lo
                       /\ hdr.device_id = io'[p][2].val.hi
                       /\ hdr.header_type = io'[p][8].val.hi % 256
                       /\ hdr.bist = io'[p][8].val.hi \div 256
                       /\ \/ pc'[p] = "readdev" /\ fr'[p].bit = Least(bits)
                          \/ pc'[p] = "bits" /\ fr'[p].bit = Least(bits) + 1
                       /\ fr'[p].idx = fr[p].idx
         /\ (pc[p] = "readdev" /\ Steps(p)) =>
               /\ fr[p].bit \in Unwrap(pci_devices)[fr[p].idx]
               /\ RegPattern(io'[p], fr[p].idx * WORD_BITS + fr[p].bit,
                             DEVICE_REGS)
               /\ \A r \in 0 .. DEVICE_REGS - 1 :
                     fr'[p].pcidev[r + 1] = io'[p][2 * r + 2].val
               /\ pc'[p] = "probe"
         /\ (pc[p] \in {"probe", "acquire", "push", "release", "ret"}
             /\ Steps(p)) => io'[p] = <<>>]_vars

\* The 16 registers of the multi-function device at 01:02.3 have just been
\* read, the last one at offset 0x3c, after the header of the bridge at
\* 00:07.7 was read and the bridge skipped.
C13_Witness ==
    \E p \in Cores :
        /\ pc[p] = "probe"
        /\ hw[1] = "bridge" /\ hw[2] = "mfdev"
        /\ Unwrap(fr[p].header).header_type = 128
        /\ Len(io[p]) = 2 * DEVICE_REGS
        /\ io[p][31] = OutOp(PCI_CONFIG_ADDRESS, [hi |-> 32769, lo |-> 4924])
        /\ io[p][32].val = [hi |-> 0, lo |-> 258]
        /\ fr[p].pcidev[16] = [hi |-> 0, lo |-> 258]

\* C14: init() holds the lock of the Device Store exactly while it pushes:
\* the store changes only by the append of the driver in hand of the core
\* that holds the lock; the lock is taken for one driver, which is not in
\* the store then, and released once that driver is the last entry; and
\* destroy_devices() goes through the store without ever taking the lock.
C14_StoreLocking ==
    /\ [](/\ dev_lock \in Cores \cup {0}
          /\ ~halted =>
                \A p \in Cores :
                   /\ dev_lock = p <=> pc[p] \in {"push", "release"}
                   /\ pc[p] = "push" => ~InStore(Unwrap(fr[p].driver).id)
                   /\ pc[p] = "release" =>
                         DEVICES[Len(DEVICES)] = Unwrap(fr[p].driver))
    /\ [][(DEVICES' # DEVICES /\ boots' = boots) =>
             \E p \in Cores :
                /\ pc[p] = "push"
                /\ dev_lock = p /\ dev_lock' = p
                /\ DEVICES' = Append(DEVICES, Unwrap(fr[p].driver))]_vars
    /\ [][(dev_lock' # dev_lock /\ boots' = boots) =>
             /\ d_pc' = "idle"
             /\ \/ dev_lock = 0 /\ pc[dev_lock'] = "acquire"
                \/ dev_lock' = 0 /\ pc[dev_lock] = "release"]_vars

\* destroy_devices() is purging the two instances of the store, each pushed
\* under the lock, while core 1, stopped, holds the lock.
C14_Witness ==
    /\ d_pc = "purge"
    /\ d_start.lock = 1
    /\ dev_lock = 1
    /\ Len(DEVICES) = 2
    /\ Len(purge_log) = 1

\* C15 as stated: at every port write or port read issued by init(), init()
\* holds neither the lock of the persisted bitmap nor the lock of the Device
\* Store.
C15_NoLockAtPortIo ==
    \A p \in Cores :
        io[p] # <<>> => (persist_lock # p /\ dev_lock # p)

\* C15, amended: at every port write or port read issued by init(), init()
\* does not hold the lock of the Device Store, and it does hold the lock of
\* the persisted bitmap, which it keeps from its first statement to its
\* return.
C15_OnlyPersistLockAtPortIo ==
    /\ [](\A p \in Cores :
            /\ io[p] # <<>> => (dev_lock # p /\ persist_lock = p)
            /\ pc[p] \in InCall \ {"done"} => persist_lock = p)
    /\ [][\A p \in Cores :
            (Steps(p) /\ io'[p] # <<>>) =>
               /\ persist_lock = p /\ persist_lock' = p
               /\ dev_lock # p /\ dev_lock' # p]_vars

\* Core 1 has just read the 16 registers of a device, holding the lock of
\* the persisted bitmap and not the lock of the Device Store, which it held
\* earlier in the call to push a driver.
C15_Witness ==
    /\ pc[1] = "probe"
    /\ Len(io[1]) = 2 * DEVICE_REGS
    /\ persist_lock = 1
    /\ dev_lock = 0
    /\ Len(DEVICES) >= 1
    /\ fr[1].plog # <<>>

\* The state of the driver instance id: Bound until purge() is called on it
InstanceState(id) == IF purged[id] = 0 THEN "Bound" ELSE "Purged"

\* C16: every instance of the Device Store is Bound from its push until
\* destroy_devices() calls purge() on it, and Purged from then on: before
\* and at the start of destroy_devices() all are Bound, during its loop
\* those before the iterator are Purged and the others Bound, after it all
\* are Purged; and no step of init() or destroy_devices() takes a Purged
\* instance back to Bound.
C16_InstanceLifecycle ==
    /\ [](\A i \in DOMAIN DEVICES :
            LET id == DEVICES[i].id
            IN /\ id \in DOMAIN purged
               /\ d_pc \in {"idle", "shatter"} => InstanceState(id) = "Bound"
               /\ d_pc = "purge" =>
                     InstanceState(id) =
                         IF i < d_i THEN "Purged" ELSE "Bound"
               /\ d_pc = "done" => InstanceState(id) = "Purged")
    /\ [][boots' = boots =>
             \A id \in DOMAIN purged :
                InstanceState(id) = "Purged" =>
                   (id \in DOMAIN purged' /\ purged'[id] # 0)]_vars

\* destroy_devices(), called with the lock free, is between the two
\* instances of the store: the first is Purged, the second still Bound.
C16_Witness ==
    /\ d_pc = "purge"
    /\ d_start.lock = 0
    /\ d_i = 2
    /\ Len(DEVICES) = 2
    /\ InstanceState(DEVICES[1].id) = "Purged"
    /\ InstanceState(DEVICES[2].id) = "Bound"

\* The positions of an init() call between its first statement and its
\* return
Running == {"check"} \cup (InCall \ {"done"})

\* The cores whose call found the persisted slot absent
Scanners == {p \in Cores : pc[p] \in InCall /\ fr[p].was_none}

\* C17: a core is between the first statement and the return of init()
\* exactly while it holds the lock of the persisted bitmap, so that the
\* calls of two cores never overlap, whatever the order of their steps: of
\* the calls during one kernel load at most one scans (exactly one when the
\* slot was absent: the first), a second call starts only after the bitmap
\* is there, and the bitmap is written once.
C17_InitCallsSerialised ==
    /\ [](/\ ~halted =>
                \A p \in Cores : pc[p] \in Running <=> persist_lock = p
          /\ \A p, q \in Cores :
                (pc[p] \in Running /\ pc[q] \in Running) => p = q
          /\ Cardinality(Scanners) <= 1
          /\ \A p \in Cores :
                (pc[p] \in InCall /\ p > 1) =>
                   (~fr[p].was_none /\ pc[1] = "done" /\ scans = 1)
          /\ (boots = 0 /\ pc[1] \in InCall) => Scanners = {1})
    /\ [][(pci_devices' # pci_devices /\ boots' = boots) =>
             (pci_devices = None /\ scans = 0 /\ scans' = 1)]_vars

\* Two cores have called init() on a machine just powered on: the call of
\* core 1 scanned and has returned, the call of core 2 found the bitmap and
\* is probing the device that core 1 has bound a driver to.
C17_Witness ==
    /\ boots = 0
    /\ pc[1] = "done" /\ fr[1].was_none
    /\ pc[2] = "probe" /\ ~fr[2].was_none
    /\ persist_lock = 2
    /\ scans = 1
    /\ Len(DEVICES) >= 1

\* The (device, routine) pairs of the present standard devices and the
\* routines that answer Some for them
ClaimedPairs ==
    {pr \in {a \in PresentAddrs(Unwrap(pci_devices)) : HwStandard(a)}
            \X Drivers :
        [drv |-> pr[2], dev |-> HwSnapshot(pr[1]), res |-> TRUE]
            \in probe_memo}

\* The first call of init() of this kernel load is at its end and no other
\* call has begun
FirstCallOver ==
    /\ ~halted
    /\ pc[1] \in {"ret", "done"}
    /\ \A q \in Cores : q > 1 => pc[q] = "idle"

\* C18: at the end of the first init() call of a kernel load, which started
\* with an empty Device Store, the store holds one entry per pair of a
\* present standard device and a routine that claimed it, nothing else, in
\* ascending order of BDF address and, for one device, of the position of
\* the routine in DRIVERS.
C18_StoreOrder ==
    FirstCallOver =>
        /\ Len(DEVICES) = Cardinality(ClaimedPairs)
        /\ \A i \in DOMAIN DEVICES :
              <<DEVICES[i].bdf, DEVICES[i].drv>> \in ClaimedPairs
        /\ \A i, j \in DOMAIN DEVICES :
              i < j =>
                 \/ DEVICES[i].bdf < DEVICES[j].bdf
                 \/ /\ DEVICES[i].bdf = DEVICES[j].bdf
                    /\ DEVICES[i].drv < DEVICES[j].drv

\* The first call is over: both routines claimed the device at 00:07.7 and
\* only the second one the device at 01:02.3, and the store holds the three
\* drivers in that order.
C18_Witness ==
    /\ FirstCallOver
    /\ Len(DEVICES) = 3
    /\ DEVICES[1].bdf = 63 /\ DEVICES[1].drv = 1
    /\ DEVICES[2].bdf = 63 /\ DEVICES[2].drv = 2
    /\ DEVICES[3].bdf = 275 /\ DEVICES[3].drv = 2

\* The init() calls that have returned since the kernel was loaded
CallsDone == {p \in Cores : pc[p] = "done"}

\* No init() call is running
NoCallRunning == ~halted /\ \A p \in Cores : pc[p] \notin Running

\* The entries of the store for the device at bdf and routine drv
EntriesOf(bdf, drv) ==
    {i \in DOMAIN DEVICES : DEVICES[i].bdf = bdf /\ DEVICES[i].drv = drv}

\* C19: init() only appends to the Device Store and does not deduplicate:
\* every step of a kernel load leaves the entries of the store in place,
\* adding at most one at the end; and once k calls have returned, the
\* routines answering each device the same way each time, the store holds k
\* entries per pair of a present standard device and a routine that claims
\* it, the entries of each call repeating those of the call before.
C19_AppendOnly ==
    /\ [](NoCallRunning =>
            LET k == Cardinality(CallsDone)
                n == IF k = 0 THEN 0 ELSE Cardinality(ClaimedPairs)
            IN /\ Len(DEVICES) = k * n
               /\ k > 0 =>
                     \A pr \in ClaimedPairs :
                        Cardinality(EntriesOf(pr[1], pr[2])) = k
               /\ \A i \in DOMAIN DEVICES :
                     i + n <= Len(DEVICES) =>
                        /\ DEVICES[i + n].bdf = DEVICES[i].bdf
                        /\ DEVICES[i + n].drv = DEVICES[i].drv
                        /\ DEVICES[i + n].id # DEVICES[i].id)
    /\ [][boots' = boots =>
             /\ Len(DEVICES') \in {Len(DEVICES), Len(DEVICES) + 1}
             /\ SubSeq(DEVICES', 1, Len(DEVICES)) = DEVICES]_vars

\* Two calls of init() have returned: the store holds the driver of the
\* first call for the device at 01:02.3 and, behind it, the driver of the
\* second call for the same device and routine.
C19_Witness ==
    /\ NoCallRunning
    /\ Cardinality(CallsDone) = 2
    /\ ClaimedPairs = {<<275, 1>>}
    /\ Len(DEVICES) = 2
    /\ DEVICES[1].bdf = 275 /\ DEVICES[2].bdf = 275
    /\ DEVICES[1].drv = 1 /\ DEVICES[2].drv = 1
    /\ DEVICES[1].id # DEVICES[2].id

-----------------------------------------------------------------------------
\* Properties of the address computations, checked under SpecAddr

\* The scan's results for the BDF b are the arithmetic values, no shift
\* having lost a bit
ScanAddrExact(b, out) ==
    /\ Val(out.pci_addr) = b.bus * 256 + b.device * 8 + b.function
    /\ out.addr = ExpectedAddr(b)
    /\ out.lost = 0

\* C4: for every (bus, device, function) in range the scan computes
\* bdf = (bus << 8) | (device << 3) | function and the selection address
\* 0x80000000 | (bdf << 8) without losing a bit in 32 bits; distinct BDFs get
\* distinct selection addresses; (1, 2, 3) gives 0x113 and 0x80011300; and
\* the parsing phase, from the bitmap position, computes the same selection
\* address as the scan.
C4_AddressEncoding ==
    /\ a_pc \in {"scanned", "parsed"} =>
          /\ ScanAddrExact(a_in.x, a_out.x)
          /\ ScanAddrExact(a_in.y, a_out.y)
          /\ (a_in.x # a_in.y) => (a_out.x.addr # a_out.y.addr)
          /\ (a_in.y = Bdf(1, 2, 3)) =>
                /\ Val(a_out.y.pci_addr) = 275
                /\ a_out.y.addr = [hi |-> 32769, lo |-> 4864]
    /\ a_pc = "parsed" =>
          /\ a_out.px.pci_addr = Val(a_out.x.pci_addr)
          /\ a_out.px.addr = a_out.x.addr
          /\ a_out.py.addr = a_out.y.addr

\* Both phases have computed the addresses of ff:1f.7 and of 01:02.3.
C4_Witness ==
    /\ a_pc = "parsed"
    /\ a_in.x = Bdf(255, 31, 7)
    /\ a_in.y = Bdf(1, 2, 3)
    /\ a_out.x.addr = [hi |-> 33023, lo |-> 65280]
    /\ a_out.py.addr = [hi |-> 32769, lo |-> 4864]

-----------------------------------------------------------------------------
\* Properties of BarType::from, checked under SpecBar

\* C9: BarType::from decodes 0 as the 32-bit type and 2 as the 64-bit type,
\* and panics on every other value.
C9_BarTypeDecoding ==
    bar_out # "call" =>
        /\ bar_val = 0 => bar_out = "Bits32"
        /\ bar_val = 2 => bar_out = "Bits64"
        /\ bar_val \notin {0, 2} => bar_out = "panic"

\* The conversion of the value 1 has panicked.
C9_Witness == bar_val = 1 /\ bar_out = "panic"

====
